---- MODULE Spec2Model ----
(***************************************************************************)
(* Warehouse floor plan: the location model (footprint check, location     *)
(* codes, search-text parsing), the inverse-distance walk-time estimator   *)
(* the selection state of the floor-plan component in its variants        *)
(* (search-enabled, entrance-view, rotation, grid-only, nine-row) and the  *)
(* device gate that decides between the floor plan and the blocked page.   *)
(*                                                                         *)
(* Text is a sequence of one-character strings, so that trimming, case     *)
(* folding and pattern matching are computed character by character.       *)
(* Fixed user-visible messages are TLA+ strings.  A nullable value         *)
(* (T | null) is a set with at most one element: None is null, Some(v) is  *)
(* the value v.                                                            *)
(***************************************************************************)
EXTENDS Integers, Sequences, FiniteSets, TLC

VARIABLES
    selectedLocation,   \* React state: Location | null
    searchValue,        \* React state: text of the search field
    searchError,        \* React state: string | null
    selected,           \* React state of the grid variants: SelectedLocation | null
    hovered,            \* React state of the grid variants: {row, column} | null
    page,               \* [mounted, listeners]: the component in the tree and the
                        \* click-away listeners it has registered
    fn,                 \* pure-function harness: the function under call
    arg,                \* pure-function harness: its argument
    res                 \* pure-function harness: [done, val]

vars == <<selectedLocation, searchValue, searchError, selected, hovered, page, fn, arg, res>>

None == {}
Some(v) == {v}
Val(o) == CHOOSE v \in o : TRUE

(***************************************************************************)
(* Bounds of the model.                                                    *)
(***************************************************************************)
\* aisle and spot arguments range over (1 - Margin)..(9 + Margin)
Margin == 1
\* free-form search texts have at most MaxLen characters
MaxLen == 3

(***************************************************************************)
(* Location model.                                                         *)
(***************************************************************************)
RowCode == {"I", "A", "B", "C", "D", "E", "F", "G"}

\* a footprint check that gives rows E..G the aisle bound of rows A..D
isValidLocation_NoShortLeg(row, aisle) ==
    IF row = "I" THEN aisle >= 1 /\ aisle <= 9
    ELSE IF row \in {"A", "B", "C", "D"} THEN aisle >= 1 /\ aisle <= 6
    ELSE IF row \in {"E", "F", "G"} THEN aisle >= 1 /\ aisle <= 6
    ELSE FALSE

isValidLocation(row, aisle) ==
    IF row = "I" THEN aisle >= 1 /\ aisle <= 9
    ELSE IF row \in {"A", "B", "C", "D"} THEN aisle >= 1 /\ aisle <= 6
    ELSE IF row \in {"E", "F", "G"} THEN aisle >= 1 /\ aisle <= 5
    ELSE FALSE

\* the copy of the footprint check in the grid-only 8-row component
isValidCell(row, column) ==
    IF row = "I" THEN column >= 1 /\ column <= 9
    ELSE IF row = "A" \/ row = "B" \/ row = "C" \/ row = "D"
         THEN column >= 1 /\ column <= 6
    ELSE column >= 1 /\ column <= 5

(***************************************************************************)
(* Text: characters, String.prototype.trim and toUpperCase, Number() of a  *)
(* digit and the decimal rendering of a number in a template literal.      *)
(***************************************************************************)
LowerLetters == <<"a", "b", "c", "d", "e", "f", "g", "h", "i", "j", "k", "l", "m",
                  "n", "o", "p", "q", "r", "s", "t", "u", "v", "w", "x", "y", "z">>
UpperLetters == <<"A", "B", "C", "D", "E", "F", "G", "H", "I", "J", "K", "L", "M",
                  "N", "O", "P", "Q", "R", "S", "T", "U", "V", "W", "X", "Y", "Z">>
DigitChars == <<"0", "1", "2", "3", "4", "5", "6", "7", "8", "9">>
WhiteSpace == {" ", "\t", "\n"}

Range(f) == {f[i] : i \in DOMAIN f}
IndexOf(seq, c) == CHOOSE i \in DOMAIN seq : seq[i] = c

toUpperCaseChar(c) ==
    IF c \in Range(LowerLetters) THEN UpperLetters[IndexOf(LowerLetters, c)] ELSE c

toUpperCase(s) == [i \in DOMAIN s |-> toUpperCaseChar(s[i])]

RECURSIVE trimStart(_)
trimStart(s) ==
    IF s # <<>> /\ Head(s) \in WhiteSpace THEN trimStart(Tail(s)) ELSE s

RECURSIVE trimEnd(_)
trimEnd(s) ==
    IF s # <<>> /\ s[Len(s)] \in WhiteSpace
    THEN trimEnd(SubSeq(s, 1, Len(s) - 1))
    ELSE s

trim(s) == trimEnd(trimStart(s))

\* Number(c) for a one-digit string c
Number(c) == IndexOf(DigitChars, c) - 1

\* `${n}` for an integer n
RECURSIVE NatToText(_)
NatToText(n) ==
    IF n < 10 THEN <<DigitChars[n + 1]>>
    ELSE NatToText(n \div 10) \o <<DigitChars[(n % 10) + 1]>>

NumToText(n) == IF n < 0 THEN <<"-">> \o NatToText(0 - n) ELSE NatToText(n)

\* a text as the TLA+ string with the same characters
RECURSIVE Join(_)
Join(s) == IF s = <<>> THEN "" ELSE Head(s) \o Join(Tail(s))

(***************************************************************************)
(* Location codes.                                                         *)
(***************************************************************************)
\* JavaScript truthiness of a (number | null): null and 0 are falsy
Truthy(spot) == spot # None /\ Val(spot) # 0

\* a code that drops the spot
buildCode_NoSpot(row, aisle, spot) ==
    <<row, "-">> \o NumToText(aisle)

buildCode(row, aisle, spot) ==
    IF Truthy(spot)
    THEN <<row, "-">> \o NumToText(aisle) \o <<"-">> \o NumToText(Val(spot))
    ELSE <<row, "-">> \o NumToText(aisle)

(***************************************************************************)
(* parseSearchInput.  The messages are the source's, with the en dash of   *)
(* "1-9" and "A-G" written as an ASCII hyphen.                             *)
(***************************************************************************)
MsgEmptyInput == "Enter a location (e.g., I-2-7 or I27)"
MsgInvalidRow == "Invalid row (valid rows: I, A-G)."
MsgInvalidAisle == "Invalid aisle (valid range is 1-9)."
MsgInvalidSpot == "Invalid spot (valid range is 1-9)."
MsgInvalidFormat ==
    "Invalid format. Use ROW-AISLE-SPOT (I-2-7), partial (I-2), or compact (I27)."

Fail(message) == [ok |-> FALSE, message |-> message]
Ok(row, aisle, spot) == [ok |-> TRUE, row |-> row, aisle |-> aisle, spot |-> spot]

allowedRows == <<"I", "A", "B", "C", "D", "E", "F", "G">>

\* the character class [IA-G] and the class \d
RowClass == {"I"} \cup {UpperLetters[i] : i \in 1..7}
DigitClass == Range(DigitChars)

\* /^([IA-G])-(\d)(?:-(\d))?$/ : the capture groups, or None without a match
matchHyphen(value) ==
    IF /\ Len(value) \in {3, 5}
       /\ value[1] \in RowClass
       /\ value[2] = "-"
       /\ value[3] \in DigitClass
       /\ Len(value) = 5 => (value[4] = "-" /\ value[5] \in DigitClass)
    THEN Some([g1 |-> value[1], g2 |-> value[3],
               g3 |-> IF Len(value) = 5 THEN Some(value[5]) ELSE None])
    ELSE None

\* /^([IA-G])(\d)(\d)?$/ : the capture groups, or None without a match
matchCompact(value) ==
    IF /\ Len(value) \in {2, 3}
       /\ value[1] \in RowClass
       /\ value[2] \in DigitClass
       /\ Len(value) = 3 => value[3] \in DigitClass
    THEN Some([g1 |-> value[1], g2 |-> value[2],
               g3 |-> IF Len(value) = 3 THEN Some(value[3]) ELSE None])
    ELSE None

\* a hyphen branch that checks the spot before the aisle
hyphenBranch_SpotFirst(hyphen) ==
    LET row == hyphen.g1
        aisle == Number(hyphen.g2)
        spot == IF hyphen.g3 # None THEN Some(Number(Val(hyphen.g3))) ELSE None
    IN  IF spot # None /\ (Val(spot) < 1 \/ Val(spot) > 9) THEN Fail(MsgInvalidSpot)
        ELSE IF aisle < 1 \/ aisle > 9 THEN Fail(MsgInvalidAisle)
        ELSE Ok(row, aisle, spot)

\* the branch taken when the hyphen pattern matches
hyphenBranch(hyphen) ==
    LET row == hyphen.g1
        aisle == Number(hyphen.g2)
        spot == IF hyphen.g3 # None THEN Some(Number(Val(hyphen.g3))) ELSE None
    IN  IF aisle < 1 \/ aisle > 9 THEN Fail(MsgInvalidAisle)
        ELSE IF spot # None /\ (Val(spot) < 1 \/ Val(spot) > 9) THEN Fail(MsgInvalidSpot)
        ELSE Ok(row, aisle, spot)

\* a compact branch that reads the digits in the order spot, aisle
compactBranch_Swapped(compact) ==
    LET row == compact.g1
        aisle == IF compact.g3 # None THEN Number(Val(compact.g3)) ELSE Number(compact.g2)
        spot == IF compact.g3 # None THEN Some(Number(compact.g2)) ELSE None
    IN  IF aisle < 1 \/ aisle > 9 THEN Fail(MsgInvalidAisle)
        ELSE IF spot # None /\ (Val(spot) < 1 \/ Val(spot) > 9) THEN Fail(MsgInvalidSpot)
        ELSE Ok(row, aisle, spot)

\* the branch taken when the compact pattern matches
compactBranch(compact) ==
    LET row == compact.g1
        aisle == Number(compact.g2)
        spot == IF compact.g3 # None THEN Some(Number(Val(compact.g3))) ELSE None
    IN  IF aisle < 1 \/ aisle > 9 THEN Fail(MsgInvalidAisle)
        ELSE IF spot # None /\ (Val(spot) < 1 \/ Val(spot) > 9) THEN Fail(MsgInvalidSpot)
        ELSE Ok(row, aisle, spot)

\* a parser that also applies the footprint check
parseSearchInput_Footprint(raw) ==
    LET value == toUpperCase(trim(raw))
        parsed == IF matchHyphen(value) # None THEN hyphenBranch(Val(matchHyphen(value)))
                  ELSE compactBranch(Val(matchCompact(value)))
    IN  IF value = <<>> THEN Fail(MsgEmptyInput)
        ELSE IF value[1] \in Range(UpperLetters) /\ value[1] \notin Range(allowedRows)
        THEN Fail(MsgInvalidRow)
        ELSE IF matchHyphen(value) = None /\ matchCompact(value) = None
        THEN Fail(MsgInvalidFormat)
        ELSE IF parsed.ok /\ ~isValidLocation(parsed.row, parsed.aisle)
        THEN Fail(MsgInvalidAisle)
        ELSE parsed

\* a parser that tries the two patterns before it looks at the row letter
parseSearchInput_FormatFirst(raw) ==
    LET value == toUpperCase(trim(raw))
    IN  IF value = <<>> THEN Fail(MsgEmptyInput)
        ELSE IF matchHyphen(value) # None THEN hyphenBranch(Val(matchHyphen(value)))
        ELSE IF matchCompact(value) # None THEN compactBranch(Val(matchCompact(value)))
        ELSE Fail(MsgInvalidFormat)

parseSearchInput(raw) ==
    LET value == toUpperCase(trim(raw))
    IN  IF value = <<>> THEN Fail(MsgEmptyInput)
        ELSE IF value[1] \in Range(UpperLetters) /\ value[1] \notin Range(allowedRows)
        THEN Fail(MsgInvalidRow)
        ELSE IF matchHyphen(value) # None THEN hyphenBranch(Val(matchHyphen(value)))
        ELSE IF matchCompact(value) # None THEN compactBranch(Val(matchCompact(value)))
        ELSE Fail(MsgInvalidFormat)

(***************************************************************************)
(* Harness for the pure functions: Init draws an argument, the call        *)
(* action applies the function to it once.                                 *)
(***************************************************************************)
Pending == [done |-> FALSE]
Done(v) == [done |-> TRUE, val |-> v]

NumberInputs == (1 - Margin)..(9 + Margin)

UiInit ==
    /\ selectedLocation = None
    /\ searchValue = <<>>
    /\ searchError = None
    /\ selected = None
    /\ hovered = None
    /\ page = [mounted |-> TRUE, listeners |-> 0]

InitValid ==
    /\ UiInit
    /\ fn = "isValidLocation"
    /\ arg \in [row : RowCode, aisle : NumberInputs]
    /\ res = Pending

CallIsValidLocation ==
    /\ fn = "isValidLocation"
    /\ res = Pending
    /\ res' = Done([location |-> isValidLocation(arg.row, arg.aisle),
                    cell |-> isValidCell(arg.row, arg.aisle)])
    /\ UNCHANGED <<selectedLocation, searchValue, searchError, selected, hovered, page, fn, arg>>

NextValid == CallIsValidLocation

SpecValid == InitValid /\ [][NextValid]_vars

(***************************************************************************)
(* Search texts given to the parser: every text of at most MaxLen          *)
(* characters over a small alphabet, and every text of the shape           *)
(*   pad letter sep digit sep [digit] pad                                  *)
(* with an upper- or lower-case letter, optional hyphens and padding.      *)
(***************************************************************************)
FreeAlphabet == {"I", "G", "H", "g", "z", "-", "0", "5", " "}

RECURSIVE TextsUpTo(_)
TextsUpTo(n) ==
    IF n = 0 THEN {<<>>}
    ELSE TextsUpTo(n - 1) \cup
         {Append(t, c) : t \in {u \in TextsUpTo(n - 1) : Len(u) = n - 1}, c \in FreeAlphabet}

RowLetterInputs ==
    RowCode \cup {LowerLetters[IndexOf(UpperLetters, r)] : r \in RowCode}
            \cup {"H", "Z", "h", "z"}
Separators == {<<>>, <<"-">>}
Pads == {<<>>, <<" ">>}
OptionalDigit == {<<>>} \cup {<<d>> : d \in DigitClass}

Shapes ==
    [p1 : Pads, letter : RowLetterInputs, s1 : Separators, d1 : DigitClass,
     s2 : Separators, d2 : OptionalDigit, p2 : Pads]

ShapedText(shape) ==
    shape.p1 \o <<shape.letter>> \o shape.s1 \o <<shape.d1>> \o shape.s2
             \o shape.d2 \o shape.p2

OptionalNumberInputs == {None} \cup {Some(n) : n \in NumberInputs}

InitParse ==
    /\ UiInit
    /\ res = Pending
    /\ \/ fn = "parseSearchInput" /\ arg \in TextsUpTo(MaxLen)
       \/ fn = "parseShaped" /\ arg \in Shapes
       \/ /\ fn = "roundTrip"
          /\ arg \in [row : RowCode, aisle : NumberInputs, spot : OptionalNumberInputs]

CallParseSearchInput ==
    /\ fn = "parseSearchInput"
    /\ res = Pending
    /\ res' = Done(parseSearchInput(arg))
    /\ UNCHANGED <<selectedLocation, searchValue, searchError, selected, hovered, page, fn, arg>>

\* parseSearchInput of the text of a shape
CallParseShaped ==
    /\ fn = "parseShaped"
    /\ res = Pending
    /\ res' = Done(parseSearchInput(ShapedText(arg)))
    /\ UNCHANGED <<selectedLocation, searchValue, searchError, selected, hovered, page, fn, arg>>

\* parseSearchInput(buildCode(row, aisle, spot))
CallRoundTrip ==
    /\ fn = "roundTrip"
    /\ res = Pending
    /\ res' = Done(parseSearchInput(buildCode(arg.row, arg.aisle, arg.spot)))
    /\ UNCHANGED <<selectedLocation, searchValue, searchError, selected, hovered, page, fn, arg>>

NextParse == CallParseSearchInput \/ CallParseShaped \/ CallRoundTrip

SpecParse == InitParse /\ [][NextParse]_vars

(***************************************************************************)
(* Walk-time estimator.                                                    *)
(*                                                                         *)
(* The source computes in IEEE doubles; the model computes the same        *)
(* quantities in integers.  With D = ROW_SPAN * AISLE_SPAN * SPOT_SPAN,    *)
(*   (distance + eps)^2 * D^2 = n + 2*eps*D*sqrt(n) + (eps*D)^2,           *)
(* where n = (distance * D)^2 is an integer.  A weight 1/(distance+eps)^2  *)
(* is carried as an integer multiple of 2^-22 of the largest of the five   *)
(* weights; the common factor cancels in weightedSum / weightTotal.  The   *)
(* quotient so computed differs from the double quotient by less than      *)
(* 2*10^-4, and at every coordinate of the grid and of its margin the      *)
(* double quotient is more than 5*10^-4 away from a rounding boundary, so  *)
(* Math.round gives the value computed here.                               *)
(***************************************************************************)
\* the rows indexed alphabetically, with no regard to the walk from the dock
ROW_INDEX_Alphabetical ==
    [A |-> 0, B |-> 1, C |-> 2, D |-> 3, E |-> 4, F |-> 5, G |-> 6, I |-> 7]

ROW_INDEX ==
    [G |-> 0, F |-> 1, E |-> 2, D |-> 3, C |-> 4, B |-> 5, A |-> 6, I |-> 7]

\* an anchor table with a mistyped walk time
WALK_TIME_ANCHORS_Mistyped ==
    << [row |-> "I", aisle |-> 1, spot |-> 1, seconds |-> 70],
       [row |-> "I", aisle |-> 9, spot |-> 9, seconds |-> 110],
       [row |-> "D", aisle |-> 6, spot |-> 9, seconds |-> 48],
       [row |-> "G", aisle |-> 1, spot |-> 9, seconds |-> 25],
       [row |-> "E", aisle |-> 5, spot |-> 5, seconds |-> 30] >>

WALK_TIME_ANCHORS ==
    << [row |-> "I", aisle |-> 1, spot |-> 1, seconds |-> 70],
       [row |-> "I", aisle |-> 9, spot |-> 9, seconds |-> 100],
       [row |-> "D", aisle |-> 6, spot |-> 9, seconds |-> 48],
       [row |-> "G", aisle |-> 1, spot |-> 9, seconds |-> 25],
       [row |-> "E", aisle |-> 5, spot |-> 5, seconds |-> 30] >>

ROW_SPAN == 7
AISLE_SPAN == 8
SPOT_SPAN == 8
\* eps = 1 / EpsInverse
EpsInverse == 10^6

Abs(x) == IF x < 0 THEN 0 - x ELSE x
Min(S) == CHOOSE x \in S : \A y \in S : x <= y
Max(S) == CHOOSE x \in S : \A y \in S : x >= y

\* floor(sqrt(n)), by bisection of lo..hi
RECURSIVE SqrtBetween(_, _, _)
SqrtBetween(n, lo, hi) ==
    IF lo = hi THEN lo
    ELSE LET mid == (lo + hi + 1) \div 2
         IN  IF mid * mid <= n THEN SqrtBetween(n, mid, hi)
             ELSE SqrtBetween(n, lo, mid - 1)

Sqrt(n) == SqrtBetween(n, 0, 46340)

\* floor(2^bits * num / den) for num <= den, one binary digit at a time
RECURSIVE ShiftDivide(_, _, _, _)
ShiftDivide(quotient, rest, den, bits) ==
    IF bits = 0 THEN quotient
    ELSE ShiftDivide(2 * quotient + (2 * rest) \div den, (2 * rest) % den, den, bits - 1)

SpanProduct == ROW_SPAN * AISLE_SPAN * SPOT_SPAN
DenScale == 10^3
WeightBits == 11 + 11

\* (distance * SpanProduct)^2, for dr, da, ds of the loop body
ScaledDistanceSquared(loc, a) ==
    LET dr == Abs(ROW_INDEX[loc.row] - ROW_INDEX[a.row]) * AISLE_SPAN * SPOT_SPAN
        da == Abs(loc.aisle - a.aisle) * ROW_SPAN * SPOT_SPAN
        ds == Abs(loc.spot - a.spot) * ROW_SPAN * AISLE_SPAN
    IN  dr * dr + da * da + ds * ds

\* DenScale * SpanProduct^2 * (distance + eps)^2, that is DenScale * SpanProduct^2 / w
WeightDenominator(loc, a) ==
    LET n == ScaledDistanceSquared(loc, a)
    IN  DenScale * n + (((2 * SpanProduct * Sqrt(100 * n)) \div 10) * DenScale) \div EpsInverse

LeastDenominator(loc) ==
    Min({WeightDenominator(loc, WALK_TIME_ANCHORS[i]) : i \in DOMAIN WALK_TIME_ANCHORS})

\* w, in units of 2^-WeightBits of the largest weight at loc
Weight(loc, a) ==
    LET den == WeightDenominator(loc, a)
        least == LeastDenominator(loc)
    IN  ShiftDivide(least \div den, least % den, den, WeightBits)

\* an exact hit that answers with the first anchor's time
RECURSIVE AnchorLoop_FirstAnchor(_, _, _, _)
AnchorLoop_FirstAnchor(loc, i, weightedSum, weightTotal) ==
    IF i > Len(WALK_TIME_ANCHORS)
    THEN [returned |-> FALSE, weightedSum |-> weightedSum, weightTotal |-> weightTotal]
    ELSE LET a == WALK_TIME_ANCHORS[i]
         IN  IF a.row = loc.row /\ a.aisle = loc.aisle /\ a.spot = loc.spot
             THEN [returned |-> TRUE, seconds |-> WALK_TIME_ANCHORS[1].seconds]
             ELSE AnchorLoop_FirstAnchor(loc, i + 1,
                                         weightedSum + Weight(loc, a) * a.seconds,
                                         weightTotal + Weight(loc, a))

\* for (const a of WALK_TIME_ANCHORS) { ... }, from the i-th anchor on
RECURSIVE AnchorLoop(_, _, _, _)
AnchorLoop(loc, i, weightedSum, weightTotal) ==
    IF i > Len(WALK_TIME_ANCHORS)
    THEN [returned |-> FALSE, weightedSum |-> weightedSum, weightTotal |-> weightTotal]
    ELSE LET a == WALK_TIME_ANCHORS[i]
         IN  IF a.row = loc.row /\ a.aisle = loc.aisle /\ a.spot = loc.spot
             THEN [returned |-> TRUE, seconds |-> a.seconds]
             ELSE AnchorLoop(loc, i + 1,
                             weightedSum + Weight(loc, a) * a.seconds,
                             weightTotal + Weight(loc, a))

\* Math.round(Math.max(lo, Math.min(hi, num / den)))
ClampRound(num, den, lo, hi) ==
    LET clamped == IF num > hi * den THEN hi * den
                   ELSE IF num < lo * den THEN lo * den
                   ELSE num
    IN  clamped \div den + (IF 2 * (clamped % den) >= den THEN 1 ELSE 0)

\* an estimator that answers from the selection when there is one with a spot
estimateWalkSecondsIDW_FromSelection(loc) ==
    LET target == IF selectedLocation # None /\ Val(selectedLocation).spot # None
                  THEN [row |-> Val(selectedLocation).row,
                        aisle |-> Val(selectedLocation).aisle,
                        spot |-> Val(Val(selectedLocation).spot)]
                  ELSE loc
        anchorSeconds == {WALK_TIME_ANCHORS[i].seconds : i \in DOMAIN WALK_TIME_ANCHORS}
        loop == AnchorLoop(target, 1, 0, 0)
    IN  IF loop.returned THEN loop.seconds
        ELSE ClampRound(loop.weightedSum, loop.weightTotal,
                        Min(anchorSeconds), Max(anchorSeconds))

estimateWalkSecondsIDW(loc) ==
    LET anchorSeconds == {WALK_TIME_ANCHORS[i].seconds : i \in DOMAIN WALK_TIME_ANCHORS}
        minAnchorSeconds == Min(anchorSeconds)
        maxAnchorSeconds == Max(anchorSeconds)
        loop == AnchorLoop(loc, 1, 0, 0)
    IN  IF loop.returned THEN loop.seconds
        ELSE ClampRound(loop.weightedSum, loop.weightTotal,
                        minAnchorSeconds, maxAnchorSeconds)

InitIDW ==
    /\ UiInit
    /\ fn = "estimateWalkSecondsIDW"
    /\ arg \in [row : RowCode, aisle : NumberInputs, spot : NumberInputs]
    /\ res = Pending

CallEstimateWalkSecondsIDW ==
    /\ fn = "estimateWalkSecondsIDW"
    /\ res = Pending
    /\ res' = Done(estimateWalkSecondsIDW(arg))
    /\ UNCHANGED <<selectedLocation, searchValue, searchError, selected, hovered, page, fn, arg>>

NextIDW == CallEstimateWalkSecondsIDW

SpecIDW == InitIDW /\ [][NextIDW]_vars

(***************************************************************************)
(* The click-away effect.  page.listeners counts the pointerdown listeners *)
(* the component has on the window or document.  After a render whose      *)
(* dependency differs from that of the previous effect run, React calls    *)
(* the cleanup the previous run returned, if it returned one, and runs the *)
(* effect again; on unmount it calls the pending cleanup.  The dependency  *)
(* of the search-enabled component is the selectedLocation object, taken   *)
(* by value here: a new object of equal value re-runs the effect, removing *)
(* one listener and adding one.                                            *)
(***************************************************************************)
\* the dependency array of the effect of the mounted variant
EffectDep(sel) ==
    CASE fn \in {"ui", "calls"} -> sel
      [] fn = "entranceView" ->
             IF sel = None THEN <<"undefined", 0>>
             ELSE IF Val(sel).spot = None THEN <<"null", 0>>
             ELSE <<"number", Val(Val(sel).spot)>>
      [] fn = "rotation" -> sel # None
      [] OTHER -> <<>>

\* whether a run of the effect goes past its early return, registers a
\* listener and returns its cleanup
ListenerWanted(sel) ==
    CASE fn \in {"ui", "calls"} -> sel # None
      [] fn = "entranceView" -> sel # None /\ Truthy(Val(sel).spot)
      [] fn = "rotation" -> sel # None
      [] OTHER -> FALSE

\* a cleanup whose removeEventListener does not find the listener
RunEffects_NoRemove(before, after) ==
    IF EffectDep(after) = EffectDep(before) THEN page
    ELSE [page EXCEPT !.listeners = @ + (IF ListenerWanted(after) THEN 1 ELSE 0)]

\* the effects of the commit that takes the selection from before to after
RunEffects(before, after) ==
    IF EffectDep(after) = EffectDep(before) THEN page
    ELSE [page EXCEPT !.listeners = (@ - (IF ListenerWanted(before) THEN 1 ELSE 0))
                                       + (IF ListenerWanted(after) THEN 1 ELSE 0)]

\* the component leaves the tree: the pending cleanup runs
Unmount ==
    /\ page.mounted
    /\ page' = [mounted |-> FALSE,
                listeners |-> RunEffects(IF fn \in {"ui", "calls"} THEN selectedLocation
                                         ELSE selected, None).listeners]
    /\ UNCHANGED <<selectedLocation, searchValue, searchError, selected, hovered, fn, arg, res>>

(***************************************************************************)
(* The search-enabled floor-plan component.  Its React state is the three  *)
(* variables selectedLocation, searchValue and searchError; a handler is   *)
(* an operator from the state it runs in to the state it leaves.           *)
(***************************************************************************)
State == [selectedLocation |-> selectedLocation,
          searchValue |-> searchValue,
          searchError |-> searchError]

SetState(st) ==
    /\ page.mounted
    /\ selectedLocation' = st.selectedLocation
    /\ searchValue' = st.searchValue
    /\ searchError' = st.searchError
    /\ page' = RunEffects(selectedLocation, st.selectedLocation)
    /\ UNCHANGED <<selected, hovered, fn, arg, res>>

Location(row, aisle, spot, code) ==
    [row |-> row, aisle |-> aisle, spot |-> spot, code |-> code]

\* a submit that is enabled whatever the text
canSearch_Always(st) == TRUE

canSearch(st) == Len(trim(st.searchValue)) > 0

handleSpotClick(st, row, aisle, spot) ==
    IF isValidLocation(row, aisle)
    THEN [selectedLocation |-> Some(Location(row, aisle, Some(spot),
                                             buildCode(row, aisle, Some(spot)))),
          searchValue |-> <<>>,
          searchError |-> None]
    ELSE st

\* a clear that leaves the search field as it is
clearSelection_SelectionOnly(st) ==
    [st EXCEPT !.selectedLocation = None]

clearSelection(st) ==
    [selectedLocation |-> None, searchValue |-> <<>>, searchError |-> None]

\* `No storage at ${parsed.row}-${parsed.aisle}.`
NoStorageMessage(row, aisle) ==
    "No storage at " \o row \o "-" \o Join(NumToText(aisle)) \o "."

\* a submit that empties the search field when it rejects the text
handleSearchGo_ClearsOnFailure(st) ==
    LET parsed == parseSearchInput(st.searchValue)
    IN  IF ~parsed.ok
        THEN [st EXCEPT !.searchValue = <<>>, !.searchError = Some(parsed.message)]
        ELSE IF ~isValidLocation(parsed.row, parsed.aisle)
        THEN [st EXCEPT !.searchValue = <<>>,
                        !.searchError = Some(NoStorageMessage(parsed.row, parsed.aisle))]
        ELSE [selectedLocation |-> Some(Location(parsed.row, parsed.aisle, parsed.spot,
                                        buildCode(parsed.row, parsed.aisle, parsed.spot))),
              searchValue |-> <<>>,
              searchError |-> None]

\* a submit that selects whatever parses, without the footprint check
handleSearchGo_NoFootprint(st) ==
    LET parsed == parseSearchInput(st.searchValue)
    IN  IF ~parsed.ok
        THEN [st EXCEPT !.searchError = Some(parsed.message)]
        ELSE [selectedLocation |-> Some(Location(parsed.row, parsed.aisle, parsed.spot,
                                        buildCode(parsed.row, parsed.aisle, parsed.spot))),
              searchValue |-> <<>>,
              searchError |-> None]

handleSearchGo(st) ==
    LET parsed == parseSearchInput(st.searchValue)
    IN  IF ~parsed.ok
        THEN [st EXCEPT !.searchError = Some(parsed.message)]
        ELSE IF ~isValidLocation(parsed.row, parsed.aisle)
        THEN [st EXCEPT !.searchError = Some(NoStorageMessage(parsed.row, parsed.aisle))]
        ELSE [selectedLocation |-> Some(Location(parsed.row, parsed.aisle, parsed.spot,
                                        buildCode(parsed.row, parsed.aisle, parsed.spot))),
              searchValue |-> <<>>,
              searchError |-> None]

\* The click-away listener.  The effect registers it on the document, in the
\* capture phase, while selectedLocation is not null; a press on a spot
\* button is ignored, any other press clears the selection.
onPointerDown(st, onSpotButton) ==
    IF st.selectedLocation = None THEN st
    ELSE IF onSpotButton THEN st
    ELSE clearSelection(st)

(***************************************************************************)
(* User events.  A pointer press on an element is a pointerdown, seen by   *)
(* the click-away listener, and then, if the element is still rendered and *)
(* enabled after the re-render, a click on it.  A key press or a keyboard  *)
(* activation of a focused button involves no pointerdown.                 *)
(***************************************************************************)
ClickedSpots == {1, 9}

\* the texts the user types: "I-2", "i27", "G-9-7", "Z0", ... and a few more
TypedShapes ==
    {sh \in [p1 : {<<>>}, letter : {"I", "g", "Z"}, s1 : Separators,
             d1 : {"0", "2", "9"}, s2 : Separators,
             d2 : {<<>>, <<"7">>}, p2 : {<<>>}] :
        /\ sh.s1 = <<>> => sh.s2 = <<>>
        /\ sh.d2 = <<>> => sh.s2 = <<>>
        /\ sh.d2 # <<>> => sh.s2 = sh.s1}

TypedTexts ==
    {ShapedText(sh) : sh \in TypedShapes}
        \cup {<<>>, <<" ">>, <<"I", "-", "9", "9">>, <<"I", "-", "2", "-", "0">>}

\* onChange of the search field
ChangeSearch ==
    \E text \in TypedTexts :
        /\ text # searchValue
        /\ SetState([State EXCEPT !.searchValue = toUpperCase(text),
                                  !.searchError = None])

\* onKeyDown of the search field with the Enter key
KeyEnterInSearch ==
    /\ canSearch(State)
    /\ SetState(handleSearchGo(State))

\* the Go button activated from the keyboard
KeyActivateGo ==
    /\ canSearch(State)
    /\ SetState(handleSearchGo(State))

\* the Go button pressed with the pointer
PressGo ==
    LET st == onPointerDown(State, FALSE)
    IN  SetState(IF canSearch(st) THEN handleSearchGo(st) ELSE st)

\* a spot button of a rendered cell pressed with the pointer
PressSpot ==
    \E row \in RowCode, aisle \in 1..9, spot \in ClickedSpots :
        /\ isValidLocation(row, aisle)
        /\ SetState(handleSpotClick(onPointerDown(State, TRUE), row, aisle, spot))

\* the Clear Selection button, rendered while a location is selected
PressClearSelection ==
    /\ selectedLocation # None
    /\ LET st == onPointerDown(State, FALSE)
       IN  SetState(IF st.selectedLocation # None THEN clearSelection(st) ELSE st)

\* the X button of the search field, rendered while the text is not empty
PressClearSearch ==
    /\ searchValue # <<>>
    /\ LET st == onPointerDown(State, FALSE)
       IN  SetState(IF st.searchValue # <<>>
                    THEN [st EXCEPT !.searchValue = <<>>, !.searchError = None]
                    ELSE st)

\* a press anywhere else on the page (the search field included)
PressElsewhere ==
    SetState(onPointerDown(State, FALSE))

Init ==
    /\ UiInit
    /\ fn = "ui"
    /\ arg = <<>>
    /\ res = Pending

Next ==
    \/ ChangeSearch
    \/ KeyEnterInSearch
    \/ KeyActivateGo
    \/ PressGo
    \/ PressSpot
    \/ PressClearSelection
    \/ PressClearSearch
    \/ PressElsewhere
    \/ Unmount

Spec == Init /\ [][Next]_vars

(***************************************************************************)
(* Calls of the estimator among handler runs of the search-enabled         *)
(* component.  res.val is the log of the calls made so far: the argument,  *)
(* the result and the selection at the time of the call.                   *)
(***************************************************************************)
MaxCalls == 2

CalledLocations ==
    {[row |-> "I", aisle |-> 1, spot |-> 1],
     [row |-> "C", aisle |-> 5, spot |-> 8],
     [row |-> "G", aisle |-> 4, spot |-> 9]}

SubmittedTexts == {<<"C", "5", "8">>, <<"G", "-", "9">>, <<"I", "-", "0">>}

InitCalls ==
    /\ UiInit
    /\ fn = "calls"
    /\ arg = <<>>
    /\ res = Done(<<>>)

\* estimateWalkSecondsIDW(loc), its result appended to the log
CallAmongHandlers ==
    /\ fn = "calls"
    /\ Len(res.val) < MaxCalls
    /\ \E loc \in CalledLocations :
        res' = Done(Append(res.val, [loc |-> loc,
                                      seconds |-> estimateWalkSecondsIDW(loc),
                                      selection |-> selectedLocation]))
    /\ UNCHANGED <<selectedLocation, searchValue, searchError, selected, hovered, page, fn, arg>>

HandleSpotClickBetweenCalls ==
    \E loc \in CalledLocations :
        SetState(handleSpotClick(State, loc.row, loc.aisle, loc.spot))

HandleSearchGoBetweenCalls ==
    \E text \in SubmittedTexts :
        SetState(handleSearchGo([State EXCEPT !.searchValue = text]))

ClearSelectionBetweenCalls ==
    /\ selectedLocation # None \/ searchError # None
    /\ SetState(clearSelection(State))

NextCalls ==
    \/ CallAmongHandlers
    \/ HandleSpotClickBetweenCalls
    \/ HandleSearchGoBetweenCalls
    \/ ClearSelectionBetweenCalls

SpecCalls == InitCalls /\ [][NextCalls]_vars

(***************************************************************************)
(* formatMinutesSeconds, in the search-enabled component and in the        *)
(* entrance-view and rotation components.  The argument is an integer      *)
(* number of seconds, on which Math.round is the identity; the result is   *)
(* the rendered string.                                                    *)
(***************************************************************************)
MaxTotalSeconds == 130

\* a duration that always renders both components
formatMinutesSeconds_BothComponents(totalSeconds) ==
    LET clamped == Max({0, totalSeconds})
        minutes == clamped \div 60
        seconds == clamped % 60
        secondLabel == IF seconds = 1 THEN "second" ELSE "seconds"
        minuteLabel == IF minutes = 1 THEN "minute" ELSE "minutes"
    IN  Join(NumToText(minutes)) \o " " \o minuteLabel \o " "
            \o Join(NumToText(seconds)) \o " " \o secondLabel

formatMinutesSeconds(totalSeconds) ==
    LET clamped == Max({0, totalSeconds})
        minutes == clamped \div 60
        seconds == clamped % 60
        secondLabel == IF seconds = 1 THEN "second" ELSE "seconds"
        minuteLabel == IF minutes = 1 THEN "minute" ELSE "minutes"
    IN  IF minutes <= 0 THEN Join(NumToText(seconds)) \o " " \o secondLabel
        ELSE IF seconds <= 0 THEN Join(NumToText(minutes)) \o " " \o minuteLabel
        ELSE Join(NumToText(minutes)) \o " " \o minuteLabel \o " "
                 \o Join(NumToText(seconds)) \o " " \o secondLabel

\* the entrance-view component
Entrance_formatMinutesSeconds(totalSeconds) ==
    LET clamped == Max({0, totalSeconds})
        minutes == clamped \div 60
        seconds == clamped % 60
        minuteLabel == IF minutes = 1 THEN "minute" ELSE "minutes"
    IN  IF minutes <= 0 THEN Join(NumToText(seconds)) \o " seconds"
        ELSE IF seconds <= 0 THEN Join(NumToText(minutes)) \o " " \o minuteLabel
        ELSE Join(NumToText(minutes)) \o " " \o minuteLabel \o " "
                 \o Join(NumToText(seconds)) \o " seconds"

\* the rotation component
Rotation_formatMinutesSeconds(totalSeconds) ==
    LET clamped == Max({0, totalSeconds})
        minutes == clamped \div 60
        seconds == clamped % 60
        minuteLabel == IF minutes = 1 THEN "minute" ELSE "minutes"
    IN  IF minutes <= 0 THEN Join(NumToText(seconds)) \o " seconds"
        ELSE IF seconds <= 0 THEN Join(NumToText(minutes)) \o " " \o minuteLabel
        ELSE Join(NumToText(minutes)) \o " " \o minuteLabel \o " "
                 \o Join(NumToText(seconds)) \o " seconds"

FormatVariants ==
    {"formatMinutesSeconds", "Entrance_formatMinutesSeconds", "Rotation_formatMinutesSeconds"}

TotalSecondsInputs == (0 - MaxTotalSeconds)..MaxTotalSeconds

InitFormat ==
    /\ UiInit
    /\ fn \in FormatVariants
    /\ arg \in TotalSecondsInputs
    /\ res = Pending

CallFormatMinutesSeconds ==
    /\ fn \in FormatVariants
    /\ res = Pending
    /\ res' = Done(CASE fn = "formatMinutesSeconds" -> formatMinutesSeconds(arg)
                     [] fn = "Entrance_formatMinutesSeconds" -> Entrance_formatMinutesSeconds(arg)
                     [] fn = "Rotation_formatMinutesSeconds" -> Rotation_formatMinutesSeconds(arg))
    /\ UNCHANGED <<selectedLocation, searchValue, searchError, selected, hovered, page, fn, arg>>

SpecFormat == InitFormat /\ [][CallFormatMinutesSeconds]_vars

(***************************************************************************)
(* The grid variants of the component: entrance-view, rotation, grid-only  *)
(* and nine-row.  Their React state is selected and hovered; fn names the  *)
(* mounted variant and arg holds its props.  A cell of the footprint is a  *)
(* focusable element with a click and a keydown handler and contains one   *)
(* button per spot; a cell outside the footprint has no handler.           *)
(***************************************************************************)
\* type SelectedLocation = { row, column, spot: number | null }
SelectedLocation(row, column, spot) == [row |-> row, column |-> column, spot |-> spot]

\* setSelected(v)
SetSelected(v) ==
    /\ page.mounted
    /\ selected' = v
    /\ page' = RunEffects(selected, v)
    /\ UNCHANGED <<selectedLocation, searchValue, searchError, hovered, fn, arg, res>>

\* setHovered(v)
SetHovered(v) ==
    /\ page.mounted
    /\ hovered' = v
    /\ UNCHANGED <<selectedLocation, searchValue, searchError, selected, page, fn, arg, res>>

\* onClick of a cell
CellClick(row, column) == Some(SelectedLocation(row, column, None))

\* a spot click that also reaches the cell's onClick, whose update is the later one
SpotClick_Bubbles(row, column, spot) ==
    CellClick(row, column)

\* A click on a spot button: the button's onClick runs first; the click then
\* bubbles to the cell's onClick, whose update would be the later one of the
\* batch, unless the button's handler stopped the propagation, which it does.
SpotClick(row, column, spot) ==
    LET stopPropagation == TRUE
        button == Some(SelectedLocation(row, column, Some(spot)))
    IN  IF stopPropagation THEN button ELSE CellClick(row, column)

ActivationKeys == {"Enter", " "}

\* A keydown of Enter or Space on a focused spot button bubbles to the
\* cell's onKeyDown, which calls preventDefault and selects the cell.  The
\* cancelled keydown suppresses the button's click for Enter; for Space the
\* click is dispatched on keyup and browsers differ on whether it follows.
KeyOnSpotButton(row, column, spot, key, clickFollows) ==
    IF key \in ActivationKeys
    THEN IF key = " " /\ clickFollows THEN SpotClick(row, column, spot)
         ELSE CellClick(row, column)
    ELSE selected

\* the cells the pointer rests on
HoveredCells == {<<"I", 9>>, <<"G", 5>>}

\* Status: {hasSelection ? "Active" : "Not Active"}
StatusText(sel) == IF sel # None THEN "Active" ELSE "Not Active"

(***************************************************************************)
(* The entrance-view variant.  The plan viewport holds the grid; the Clear *)
(* Selection button and the tablet spot picker lie outside it.             *)
(***************************************************************************)
Entrance_estimateWalkSecondsIDW(loc) ==
    LET anchorSeconds == {WALK_TIME_ANCHORS[i].seconds : i \in DOMAIN WALK_TIME_ANCHORS}
        minAnchorSeconds == Min(anchorSeconds)
        maxAnchorSeconds == Max(anchorSeconds)
        loop == AnchorLoop(loc, 1, 0, 0)
    IN  IF loop.returned THEN loop.seconds
        ELSE ClampRound(loop.weightedSum, loop.weightTotal,
                        minAnchorSeconds, maxAnchorSeconds)

\* a footprint check that takes every cell of the grid
Entrance_isValidCell_WholeGrid(row, column) ==
    column >= 1 /\ column <= 9

Entrance_isValidCell(row, column) ==
    IF row = "I" THEN column >= 1 /\ column <= 9
    ELSE IF row \in {"A", "B", "C", "D"} THEN column >= 1 /\ column <= 6
    ELSE column >= 1 /\ column <= 5

\* useMemo: null, or { seconds, label }
Entrance_approxWalkTime(sel) ==
    IF sel = None \/ ~Truthy(Val(sel).spot) THEN None
    ELSE LET seconds == Entrance_estimateWalkSecondsIDW(
                            [row |-> Val(sel).row, aisle |-> Val(sel).column,
                             spot |-> Val(Val(sel).spot)])
         IN  Some([seconds |-> seconds, label |-> Entrance_formatMinutesSeconds(seconds)])

\* an outside press that drops the whole selection
Entrance_onPointerDown_ClearAll(sel, insideViewport) ==
    IF sel = None \/ ~Truthy(Val(sel).spot) THEN sel
    ELSE IF insideViewport THEN sel
    ELSE None

\* The pointerdown listener of the effect, registered on the window while
\* selected?.spot is truthy: a press outside the viewport clears the spot.
Entrance_onPointerDown(sel, insideViewport) ==
    IF sel = None \/ ~Truthy(Val(sel).spot) THEN sel
    ELSE IF insideViewport THEN sel
    ELSE Some([Val(sel) EXCEPT !.spot = None])

EntranceViews == {"bottom", "top", "left"}

(***************************************************************************)
(* The rotation variant.  The container holds the whole component, the     *)
(* Clear Selection button included.                                        *)
(***************************************************************************)
Rotation_estimateWalkSecondsIDW(loc) ==
    LET anchorSeconds == {WALK_TIME_ANCHORS[i].seconds : i \in DOMAIN WALK_TIME_ANCHORS}
        minAnchorSeconds == Min(anchorSeconds)
        maxAnchorSeconds == Max(anchorSeconds)
        loop == AnchorLoop(loc, 1, 0, 0)
    IN  IF loop.returned THEN loop.seconds
        ELSE ClampRound(loop.weightedSum, loop.weightTotal,
                        minAnchorSeconds, maxAnchorSeconds)

Rotation_isValidCell(row, column) ==
    IF row = "I" THEN column >= 1 /\ column <= 9
    ELSE IF row \in {"A", "B", "C", "D"} THEN column >= 1 /\ column <= 6
    ELSE column >= 1 /\ column <= 5

\* useMemo: null, or { seconds, label }
Rotation_approxWalkTime(sel) ==
    IF sel = None \/ ~Truthy(Val(sel).spot) THEN None
    ELSE LET seconds == Rotation_estimateWalkSecondsIDW(
                            [row |-> Val(sel).row, aisle |-> Val(sel).column,
                             spot |-> Val(Val(sel).spot)])
         IN  Some([seconds |-> seconds, label |-> Rotation_formatMinutesSeconds(seconds)])

\* a listener that clears on every press, inside the container too
Rotation_onPointerDown_Anywhere(sel, insideContainer) ==
    None

\* The pointerdown listener of the effect, registered on the window while
\* there is a selection: a press outside the container clears the selection.
Rotation_onPointerDown(sel, insideContainer) ==
    IF sel = None THEN sel
    ELSE IF insideContainer THEN sel
    ELSE None

RotationDegrees == {0, 90, 180, 270}

(***************************************************************************)
(* The nine-row variant: rows I, A..H, ten columns, ten spots.  The        *)
(* grid-only variant has the grid and the footprint check of the location  *)
(* model above.                                                            *)
(***************************************************************************)
NineRow_ROWS == <<"I", "A", "B", "C", "D", "E", "F", "G", "H">>
NineRow_COLS == [i \in 1..10 |-> i]
NineRow_SPOTS == [i \in 1..10 |-> i]

NineRow_isValidCell(row, column) ==
    IF row = "I" THEN column >= 1 /\ column <= 10
    ELSE IF row \in {"A", "B", "C", "D"} THEN column >= 1 /\ column <= 6
    ELSE column >= 1 /\ column <= 5

\* the spot buttons pressed in the nine-row variant
NineRow_ClickedSpots == {NineRow_SPOTS[1], NineRow_SPOTS[Len(NineRow_SPOTS)]}

(***************************************************************************)
(* The four grid variants as one state machine.  The cell and spot         *)
(* handlers have the same text in the four sources; the variants differ in *)
(* their grid, their footprint check, their pointerdown listener and the   *)
(* controls around the grid.                                               *)
(***************************************************************************)
GridVariants == {"entranceView", "rotation", "grid", "nineRow"}

\* ROWS.map / COLS.map with the isValidCell test of the mounted variant:
\* the cells rendered with handlers
Grid_Cells ==
    CASE fn = "entranceView" ->
             {c \in RowCode \X (1..9) : Entrance_isValidCell(c[1], c[2])}
      [] fn = "rotation" ->
             {c \in RowCode \X (1..9) : Rotation_isValidCell(c[1], c[2])}
      [] fn = "grid" ->
             {c \in RowCode \X (1..9) : isValidCell(c[1], c[2])}
      [] OTHER ->
             {c \in Range(NineRow_ROWS) \X Range(NineRow_COLS) :
                  NineRow_isValidCell(c[1], c[2])}

\* the spot buttons pressed
Grid_Spots == IF fn = "nineRow" THEN NineRow_ClickedSpots ELSE ClickedSpots

\* where a pointer press lands: in the plan viewport, elsewhere in the
\* component's container, or on the page around the component
Places == {"viewport", "container", "page"}

\* the window's pointerdown listener of the mounted variant, if it has one
Grid_onPointerDown(sel, place) ==
    CASE fn = "entranceView" -> Entrance_onPointerDown(sel, place = "viewport")
      [] fn = "rotation" -> Rotation_onPointerDown(sel, place # "page")
      [] OTHER -> sel

Grid_Init ==
    /\ UiInit
    /\ fn \in GridVariants
    /\ arg \in CASE fn = "entranceView" -> [entranceView : EntranceViews, isTablet : BOOLEAN]
                 [] fn = "rotation" -> [rotationDeg : RotationDegrees]
                 [] OTHER -> {<<>>}
    /\ res = Pending

\* a cell pressed with the pointer: the press lands in the viewport, where
\* no listener changes the selection, and the click selects the cell
Grid_PressCell ==
    \E c \in Grid_Cells :
        SetSelected(CellClick(c[1], c[2]))

\* Enter or Space on a focused cell
Grid_KeyCell ==
    \E c \in Grid_Cells, key \in ActivationKeys :
        SetSelected(CellClick(c[1], c[2]))

\* Enter or Space on a focused spot button
Grid_KeySpot ==
    \E c \in Grid_Cells, spot \in Grid_Spots, key \in ActivationKeys, clickFollows \in BOOLEAN :
        SetSelected(KeyOnSpotButton(c[1], c[2], spot, key, clickFollows))

\* a spot button pressed with the pointer
Grid_PressSpot ==
    \E c \in Grid_Cells, spot \in Grid_Spots :
        SetSelected(SpotClick(c[1], c[2], spot))

\* The Clear / Clear Selection button, rendered while there is a selection.
\* It lies in the container outside the viewport: the listener runs first,
\* and the click follows if the button is still rendered.
Grid_PressClearSelection ==
    /\ selected # None
    /\ LET sel == Grid_onPointerDown(selected, "container")
       IN  SetSelected(IF sel # None THEN None ELSE sel)

\* a spot of the "Choose Spot" picker of the entrance view, rendered in
\* tablet mode while there is a selection, outside the viewport
Grid_PressTabletSpot ==
    \E spotValue \in ClickedSpots :
        /\ fn = "entranceView"
        /\ arg.isTablet
        /\ selected # None
        /\ LET sel == Grid_onPointerDown(selected, "container")
           IN  SetSelected(IF sel # None
                           THEN Some(SelectedLocation(Val(sel).row, Val(sel).column,
                                                      Some(spotValue)))
                           ELSE sel)

\* "No Spot (cell only)" of the picker
Grid_PressTabletNoSpot ==
    /\ fn = "entranceView"
    /\ arg.isTablet
    /\ selected # None
    /\ LET sel == Grid_onPointerDown(selected, "container")
       IN  SetSelected(IF sel # None
                       THEN Some(SelectedLocation(Val(sel).row, Val(sel).column, None))
                       ELSE sel)

\* a press at a place, on an element with no handler of its own
Grid_PressOn(place) ==
    SetSelected(Grid_onPointerDown(selected, place))

\* onMouseEnter of a cell
Grid_MouseEnter ==
    \E cell \in HoveredCells :
        /\ cell \in Grid_Cells
        /\ SetHovered(Some([row |-> cell[1], column |-> cell[2]]))

\* onMouseLeave of a cell
Grid_MouseLeave ==
    /\ hovered # None
    /\ SetHovered(None)

Grid_Next ==
    \/ Grid_PressCell
    \/ Grid_KeyCell
    \/ Grid_KeySpot
    \/ Grid_PressSpot
    \/ Grid_PressClearSelection
    \/ Grid_PressTabletSpot
    \/ Grid_PressTabletNoSpot
    \/ \E place \in Places : Grid_PressOn(place)
    \/ Grid_MouseEnter
    \/ Grid_MouseLeave
    \/ Unmount

Grid_Spec == Grid_Init /\ [][Grid_Next]_vars

(***************************************************************************)
(* The walk time shown by the search-enabled component.                    *)
(***************************************************************************)
\* a label that reads an absent spot as spot 0 (selectedLocation.spot ?? 0)
approxWalkTimeLabel_ZeroSpot(st) ==
    IF st.selectedLocation = None THEN None
    ELSE LET loc == Val(st.selectedLocation)
         IN  Some(formatMinutesSeconds(estimateWalkSecondsIDW(
                      [row |-> loc.row, aisle |-> loc.aisle,
                       spot |-> IF Truthy(loc.spot) THEN Val(loc.spot) ELSE 0])))

\* useMemo: null, or the formatted estimate for the selected spot
approxWalkTimeLabel(st) ==
    IF st.selectedLocation = None \/ ~Truthy(Val(st.selectedLocation).spot) THEN None
    ELSE LET loc == Val(st.selectedLocation)
             seconds == estimateWalkSecondsIDW(
                            [row |-> loc.row, aisle |-> loc.aisle, spot |-> Val(loc.spot)])
         IN  Some(formatMinutesSeconds(seconds))

\* {approxWalkTimeLabel ?? "-"} of the selected-location panel (the source
\* shows an em dash)
WalkTimeShown(st) ==
    IF st.selectedLocation = None THEN None
    ELSE IF approxWalkTimeLabel(st) = None THEN Some("-")
    ELSE approxWalkTimeLabel(st)

(***************************************************************************)
(* Any one of the five variants of the component, mounted.                 *)
(***************************************************************************)
InitVariants ==
    \/ Init
    \/ Grid_Init

NextVariants ==
    \/ fn = "ui" /\ Next
    \/ fn \in GridVariants /\ Grid_Next

SpecVariants == InitVariants /\ [][NextVariants]_vars

(***************************************************************************)
(* Calls of the nine-row footprint check.                                  *)
(***************************************************************************)
NineRow_InitValid ==
    /\ UiInit
    /\ fn = "NineRow_isValidCell"
    /\ arg \in [row : Range(NineRow_ROWS), column : NumberInputs]
    /\ res = Pending

NineRow_CallIsValidCell ==
    /\ fn = "NineRow_isValidCell"
    /\ res = Pending
    /\ res' = Done(NineRow_isValidCell(arg.row, arg.column))
    /\ UNCHANGED <<selectedLocation, searchValue, searchError, selected, hovered, page, fn, arg>>

NineRow_SpecValid == NineRow_InitValid /\ [][NineRow_CallIsValidCell]_vars

(***************************************************************************)
(* The layout note under the grid: the rows and aisles its text names.     *)
(***************************************************************************)
\* "L-shaped layout: Row I (Aisles 1-9) - Rows A-G (Aisles 1-6) ..."
LayoutNote ==
    [longRow |-> "I", longAisles |-> 1..9,
     rows |-> {"A", "B", "C", "D", "E", "F", "G"}, aisles |-> 1..6]

\* "L-shaped layout: Row I (Aisles 1-10) - Rows A-H (Aisles 1-6) ..."
NineRow_LayoutNote ==
    [longRow |-> "I", longAisles |-> 1..10,
     rows |-> {"A", "B", "C", "D", "E", "F", "G", "H"}, aisles |-> 1..6]

(***************************************************************************)
(* DeviceGate, in its plain form and in its form with the force-desktop    *)
(* override.  fn names the form; arg is the browser: the window size, the  *)
(* words of the user agent that the regular expressions look for, the      *)
(* (pointer: coarse) media query, the "desktop" query parameter and the    *)
(* stored flag; res.val is the component's state: info, the override flag  *)
(* and whether an animation frame is requested.                            *)
(***************************************************************************)
\* window.innerWidth and innerHeight: 0 and the sizes around the thresholds
ScreenSides ==
    {0} \cup ((768 - Margin)..(768 + Margin)) \cup ((820 - Margin)..(820 + Margin))
        \cup ((1367 - Margin)..(1367 + Margin))

\* navigator.userAgent, as the set of the words it contains
UserAgents ==
    {{}, {"iPhone", "Mobile"}, {"iPod"}, {"Android", "Mobile"}, {"Android"},
     {"iPad"}, {"iPad", "Mobile"}, {"Tablet"}, {"Windows Phone"}, {"Mobile"}}

\* a classification that looks at the width alone
getDeviceMode_WidthOnly(env) ==
    LET width == env.width
        height == env.height
        isPhone == width > 0 /\ width < 768
        isTablet == ~isPhone /\ width >= 768 /\ width < 1367
    IN  [mode |-> IF isPhone THEN "phone" ELSE IF isTablet THEN "tablet" ELSE "desktop",
         width |-> width, height |-> height]

getDeviceMode(env) ==
    LET width == env.width
        height == env.height
        ua == env.ua
        minSide == Min({width, height})
        isPhoneUA ==
            \/ "iPhone" \in ua \/ "iPod" \in ua
            \/ ("Android" \in ua /\ "Mobile" \in ua)
            \/ "Windows Phone" \in ua
        isTabletUA ==
            \/ "iPad" \in ua
            \/ ("Android" \in ua /\ "Mobile" \notin ua)
            \/ "Tablet" \in ua
        coarsePointer == env.coarsePointer
        isPhone == minSide > 0 /\ (minSide < 768 \/ isPhoneUA \/ (coarsePointer /\ minSide < 820))
        isTablet == ~isPhone /\ (isTabletUA \/ (coarsePointer /\ minSide >= 768 /\ minSide < 1367))
    IN  [mode |-> IF isPhone THEN "phone" ELSE IF isTablet THEN "tablet" ELSE "desktop",
         width |-> width, height |-> height]

\* the initial value of forceDesktopOnPhone; a storage that throws gives false
InitialForceDesktop(env) ==
    IF env.desktop = "1" \/ env.desktop = "true" THEN TRUE
    ELSE env.stored = "1"

\* what the plain DeviceGate renders: None is the "Desktop Required" screen,
\* Some(info) is children(info)
DeviceGate(st) ==
    IF st.info.mode = "phone" THEN None
    ELSE Some([mode |-> st.info.mode,
               isTablet |-> st.info.mode = "tablet",
               isDesktop |-> st.info.mode = "desktop"])

\* an override that passes the detected mode on to the children
Override_DeviceGate_DetectedMode(st) ==
    IF st.info.mode = "phone" /\ ~st.forceDesktopOnPhone THEN None
    ELSE Some([mode |-> st.info.mode,
               isPhone |-> st.info.mode = "phone",
               isTablet |-> st.info.mode = "tablet",
               isDesktop |-> st.info.mode = "desktop"])

\* what the DeviceGate with the override renders
Override_DeviceGate(st) ==
    IF st.info.mode = "phone" /\ ~st.forceDesktopOnPhone THEN None
    ELSE LET effectiveMode ==
                 IF st.info.mode = "phone" /\ st.forceDesktopOnPhone THEN "desktop"
                 ELSE st.info.mode
         IN  Some([mode |-> effectiveMode,
                   isPhone |-> st.info.mode = "phone",
                   isTablet |-> effectiveMode = "tablet",
                   isDesktop |-> effectiveMode = "desktop"])

Gate_Init ==
    /\ UiInit
    /\ fn \in {"DeviceGate", "Override_DeviceGate"}
    /\ arg \in [width : ScreenSides, height : ScreenSides, ua : UserAgents,
                coarsePointer : BOOLEAN,
                desktop : IF fn = "DeviceGate" THEN {"absent"}
                          ELSE {"absent", "1", "true", "0"},
                stored : IF fn = "DeviceGate" THEN {"absent"}
                         ELSE {"absent", "1", "unavailable"}]
    /\ res = Done([info |-> getDeviceMode(arg),
                   forceDesktopOnPhone |-> fn = "Override_DeviceGate" /\ InitialForceDesktop(arg),
                   raf |-> FALSE])

\* resize or orientationchange: the device is rotated, or the window is
\* resized; onResize requests an animation frame
Gate_Resize ==
    /\ fn \in {"DeviceGate", "Override_DeviceGate"}
    /\ \E size \in {<<arg.height, arg.width>>,
                    <<768 - Margin, 1367 + Margin>>, <<1367 + Margin, 820 + Margin>>} :
          /\ size # <<arg.width, arg.height>>
          /\ arg' = [arg EXCEPT !.width = size[1], !.height = size[2]]
    /\ res' = Done([res.val EXCEPT !.raf = TRUE])
    /\ UNCHANGED <<selectedLocation, searchValue, searchError, selected, hovered, page, fn>>

\* the requested animation frame: setInfo(getDeviceMode())
Gate_Frame ==
    /\ fn \in {"DeviceGate", "Override_DeviceGate"}
    /\ res.val.raf
    /\ res' = Done([res.val EXCEPT !.info = getDeviceMode(arg), !.raf = FALSE])
    /\ UNCHANGED <<selectedLocation, searchValue, searchError, selected, hovered, page, fn, arg>>

\* the "View desktop version on mobile" button of the "Desktop Required"
\* screen; a storage that throws is ignored
Gate_PressViewDesktop ==
    /\ fn = "Override_DeviceGate"
    /\ Override_DeviceGate(res.val) = None
    /\ res' = Done([res.val EXCEPT !.forceDesktopOnPhone = TRUE])
    /\ arg' = [arg EXCEPT !.stored = IF @ = "unavailable" THEN @ ELSE "1"]
    /\ UNCHANGED <<selectedLocation, searchValue, searchError, selected, hovered, page, fn>>

Gate_Next ==
    \/ Gate_Resize
    \/ Gate_Frame
    \/ Gate_PressViewDesktop

Gate_Spec == Gate_Init /\ [][Gate_Next]_vars

(***************************************************************************)
(* Properties of the location model.                                       *)
(***************************************************************************)
FootprintTable(row, aisle) ==
    \/ row = "I" /\ 1 <= aisle /\ aisle <= 9
    \/ row \in {"A", "B", "C", "D"} /\ 1 <= aisle /\ aisle <= 6
    \/ row \in {"E", "F", "G"} /\ 1 <= aisle /\ aisle <= 5

\* C1: in the 8-row variant isValidLocation(row, aisle) and its copy
\* isValidCell are true exactly on the footprint table (I: 1..9, A..D: 1..6,
\* E..G: 1..5) and false for every other aisle: (G,6) false, (G,5) true,
\* (I,9) true, (I,10) false.
C1_FootprintExact ==
    (fn = "isValidLocation" /\ res.done) =>
        /\ res.val.location = FootprintTable(arg.row, arg.aisle)
        /\ res.val.cell = FootprintTable(arg.row, arg.aisle)
        /\ (arg = [row |-> "G", aisle |-> 6] => ~res.val.location)
        /\ (arg = [row |-> "G", aisle |-> 5] => res.val.location)
        /\ (arg = [row |-> "I", aisle |-> 9] => res.val.location)
        /\ (arg = [row |-> "I", aisle |-> 10] => ~res.val.location)

C1_Witness ==
    /\ fn = "isValidLocation" /\ res.done
    /\ arg = [row |-> "G", aisle |-> 6]
    /\ res.val = [location |-> FALSE, cell |-> FALSE]

ValidSpot(spot) == spot = None \/ (1 <= Val(spot) /\ Val(spot) <= 9)

\* C2: for every row, every aisle in 1..9 and every spot absent or in 1..9,
\* parseSearchInput(buildCode(row, aisle, spot)) succeeds with exactly that
\* row, aisle and spot (an absent spot stays absent).
C2_RoundTrip ==
    (/\ fn = "roundTrip" /\ res.done
     /\ arg.aisle \in 1..9
     /\ ValidSpot(arg.spot)) =>
        /\ res.val.ok
        /\ res.val.row = arg.row
        /\ res.val.aisle = arg.aisle
        /\ res.val.spot = arg.spot

C2_Witness ==
    /\ fn = "roundTrip" /\ res.done
    /\ arg = [row |-> "I", aisle |-> 2, spot |-> Some(7)]
    /\ res.val = Ok("I", 2, Some(7))

\* the text given to the parser in a state of the parser harness
ParsedText == IF fn = "parseShaped" THEN ShapedText(arg) ELSE arg
ParseDone == fn \in {"parseSearchInput", "parseShaped"} /\ res.done

\* a shape that spells a location: a letter, then "-d" or "-d-d" (hyphenated)
\* or "d" or "dd" (compact), with any padding around it
IsHyphenated(shape) ==
    /\ shape.s1 = <<"-">>
    /\ shape.d2 = <<>> => shape.s2 = <<>>
    /\ shape.d2 # <<>> => shape.s2 = <<"-">>
IsCompact(shape) == shape.s1 = <<>> /\ shape.s2 = <<>>

CanonicalText(row, d1, d2) ==
    IF d2 = <<>> THEN <<row, "-", d1>> ELSE <<row, "-", d1, "-">> \o d2

DigitValue(d) == IndexOf(DigitChars, d) - 1

\* C3: for every row R, aisle digit a and optional spot digit s, the
\* hyphenated form, the compact form, their lower-case spellings and their
\* whitespace-padded spellings all parse to the same result; "I-2-7", "I27"
\* and "i-2-7" all give row I, aisle 2, spot 7.
C3_SpellingsAgree ==
    (fn = "parseShaped" /\ res.done) =>
        /\ (/\ toUpperCaseChar(arg.letter) \in RowCode
            /\ IsHyphenated(arg) \/ IsCompact(arg)) =>
              res.val = parseSearchInput(
                            CanonicalText(toUpperCaseChar(arg.letter), arg.d1, arg.d2))
        /\ ShapedText(arg) \in {<<"I", "-", "2", "-", "7">>, <<"I", "2", "7">>,
                                <<"i", "-", "2", "-", "7">>} =>
              res.val = Ok("I", 2, Some(7))

C3_Witness ==
    /\ fn = "parseShaped" /\ res.done
    /\ ShapedText(arg) = <<" ", "i", "2", "7", " ">>
    /\ res.val = Ok("I", 2, Some(7))

\* C4: parseSearchInput checks ranges only: a success has a row of the row
\* set, an aisle in 1..9 and a spot absent or in 1..9, and every such
\* row/aisle/spot written hyphenated or compact succeeds, also outside the
\* footprint (G-9).
C4_RangeOnly ==
    ParseDone =>
        /\ res.val.ok =>
              /\ res.val.row \in RowCode
              /\ res.val.aisle \in 1..9
              /\ ValidSpot(res.val.spot)
        /\ (/\ fn = "parseShaped"
            /\ arg.p1 = <<>> /\ arg.p2 = <<>>
            /\ arg.letter \in RowCode
            /\ IsHyphenated(arg) \/ IsCompact(arg)
            /\ DigitValue(arg.d1) \in 1..9
            /\ arg.d2 # <<>> => DigitValue(arg.d2[1]) \in 1..9) =>
              res.val = Ok(arg.letter, DigitValue(arg.d1),
                           IF arg.d2 = <<>> THEN None ELSE Some(DigitValue(arg.d2[1])))

C4_Witness ==
    /\ fn = "parseShaped" /\ res.done
    /\ ShapedText(arg) = <<"G", "-", "9">>
    /\ res.val = Ok("G", 9, None)
    /\ ~isValidLocation("G", 9)

\* C6: a valid row followed by an aisle number outside 1..9 (the digit 0, or
\* a number of two digits) fails with "Invalid aisle (valid range is 1-9).";
\* in particular "I-99" does.
C6_OutOfRangeAisleIsInvalidAisle ==
    (/\ fn = "parseShaped" /\ res.done
     /\ arg.p1 = <<>> /\ arg.p2 = <<>>
     /\ arg.letter \in RowCode
     /\ arg.s1 = <<"-">> /\ arg.s2 = <<>>
     /\ arg.d1 = "0" \/ arg.d2 # <<>>) =>
        res.val = Fail(MsgInvalidAisle)

\* the first character that is left after trimming
FirstVisible(text) ==
    text[CHOOSE i \in DOMAIN text :
            /\ text[i] \notin WhiteSpace
            /\ \A j \in 1..(i - 1) : text[j] \in WhiteSpace]

StartsWithForeignLetter(text) ==
    /\ \E i \in DOMAIN text : text[i] \notin WhiteSpace
    /\ FirstVisible(text) \in Range(UpperLetters) \cup Range(LowerLetters)
    /\ toUpperCaseChar(FirstVisible(text)) \notin RowCode

\* C7: an input whose first character, after trimming and upper-casing, is
\* a letter outside the row set fails with "Invalid row (valid rows: I,
\* A-G)." whatever follows; "Z-1" does.
C7_ForeignLetterIsInvalidRow ==
    (ParseDone /\ StartsWithForeignLetter(ParsedText)) =>
        res.val = Fail(MsgInvalidRow)

C7_Witness ==
    /\ fn = "parseShaped" /\ res.done
    /\ ShapedText(arg) = <<"Z", "-", "1">>
    /\ res.val = Fail(MsgInvalidRow)

(***************************************************************************)
(* Properties of the search submit.                                        *)
(***************************************************************************)
\* a step in which handleSearchGo runs on the current search text
SearchGoRuns ==
    \/ KeyEnterInSearch
    \/ KeyActivateGo
    \/ (PressGo /\ canSearch(onPointerDown(State, FALSE)))

\* C5: a submitted text that parses but whose (row, aisle) is outside the
\* footprint (e.g. "G-9") is rejected by handleSearchGo: the selection stays
\* what it was and the error is "No storage at ROW-AISLE." naming that row
\* and aisle.
C5_TwoStageReject ==
    [][LET parsed == parseSearchInput(searchValue)
       IN  (/\ parsed.ok
            /\ ~FootprintTable(parsed.row, parsed.aisle)
            /\ SearchGoRuns) =>
               /\ selectedLocation' = selectedLocation
               /\ searchError' = Some("No storage at " \o parsed.row \o "-"
                                          \o DigitChars[parsed.aisle + 1] \o ".")
               /\ (searchValue = <<"G", "-", "9">> =>
                       searchError' = Some("No storage at G-9."))]_vars

C5_Witness ==
    /\ searchValue = <<"G", "-", "9">>
    /\ searchError = Some("No storage at G-9.")
    /\ selectedLocation # None

(***************************************************************************)
(* Properties of the walk-time estimator.                                  *)
(***************************************************************************)
IDWDone == fn = "estimateWalkSecondsIDW" /\ res.done

\* the five measured walk times
AnchorTimes ==
    {<<"I", 1, 1, 70>>, <<"I", 9, 9, 100>>, <<"D", 6, 9, 48>>,
     <<"G", 1, 9, 25>>, <<"E", 5, 5, 30>>}

IsAnchor(loc) == \E t \in AnchorTimes : <<loc.row, loc.aisle, loc.spot>> = <<t[1], t[2], t[3]>>

\* C8: called with an anchor's (row, aisle, spot), estimateWalkSecondsIDW
\* returns that anchor's recorded seconds, wherever the anchor stands in the
\* table: I-1-1 70, I-9-9 100, D-6-9 48, G-1-9 25, E-5-5 30.
C8_AnchorHit ==
    IDWDone =>
        \A t \in AnchorTimes :
            <<arg.row, arg.aisle, arg.spot>> = <<t[1], t[2], t[3]>> => res.val = t[4]

C8_Witness ==
    /\ IDWDone
    /\ arg = [row |-> "E", aisle |-> 5, spot |-> 5]
    /\ res.val = 30

PlainRowIndex(row) ==
    CASE row = "G" -> 0 [] row = "F" -> 1 [] row = "E" -> 2 [] row = "D" -> 3
      [] row = "C" -> 4 [] row = "B" -> 5 [] row = "A" -> 6 [] row = "I" -> 7

\* 448^2 * ((dRow / 7)^2 + (dAisle / 8)^2 + (dSpot / 8)^2)
PlainDistanceSquared(loc, t) ==
    (64 * Abs(PlainRowIndex(loc.row) - PlainRowIndex(t[1]))) ^ 2
        + (56 * Abs(loc.aisle - t[2])) ^ 2
        + (56 * Abs(loc.spot - t[3])) ^ 2

PlainReciprocal(loc, t) ==
    LET n == PlainDistanceSquared(loc, t)
    IN  1000 * n + (896 * Sqrt(100 * n)) \div 10000

\* the weight of anchor t as a multiple of 2^-20 of the largest weight
PlainWeight(loc, t) ==
    LET least == Min({PlainReciprocal(loc, u) : u \in AnchorTimes})
    IN  ShiftDivide(least \div PlainReciprocal(loc, t), least % PlainReciprocal(loc, t),
                    PlainReciprocal(loc, t), 20)

\* <<sum of w, sum of w * seconds>> over the anchors in S
RECURSIVE PlainSums(_, _)
PlainSums(loc, S) ==
    IF S = {} THEN <<0, 0>>
    ELSE LET t == CHOOSE u \in S : TRUE
             rest == PlainSums(loc, S \ {t})
         IN  <<rest[1] + PlainWeight(loc, t), rest[2] + PlainWeight(loc, t) * t[4]>>

\* r = round(clamp(sum(w * seconds) / sum(w), 25, 100))
IsRoundedClampedAverage(loc, r) ==
    LET total == PlainSums(loc, AnchorTimes)[1]
        weighted == PlainSums(loc, AnchorTimes)[2]
    IN  \/ weighted >= 100 * total /\ r = 100
        \/ weighted <= 25 * total /\ r = 25
        \/ /\ 25 * total < weighted /\ weighted < 100 * total
           /\ 2 * r * total <= 2 * weighted + total
           /\ 2 * weighted + total < (2 * r + 2) * total

\* C10: at a coordinate that is no anchor, the estimate is
\* round(clamp(sum(w_i * seconds_i) / sum(w_i), 25, 100)) over all five
\* anchors, with w_i = 1 / (d_i + 1e-6)^2 and d_i the distance normalised by
\* 7 rows, 8 aisles and 8 spots, rows indexed G=0, F=1, ..., A=6, I=7.
C10_InverseDistanceFormula ==
    (IDWDone /\ ~IsAnchor(arg)) => IsRoundedClampedAverage(arg, res.val)

C10_Witness ==
    /\ IDWDone
    /\ arg = [row |-> "C", aisle |-> 5, spot |-> 8]
    /\ res.val = 48

(***************************************************************************)
(* Properties of the estimator among the handlers.                         *)
(***************************************************************************)
CallLog == IF fn = "calls" THEN res.val ELSE <<>>

FormatDone == fn \in FormatVariants /\ res.done

\* a count with its unit word, in the singular or in the plural
Component(count, unit) ==
    {Join(NumToText(count)) \o " " \o unit, Join(NumToText(count)) \o " " \o unit \o "s"}

\* C12: with c = max(0, n), m = c div 60 and s = c mod 60, the result is the
\* seconds component alone when m = 0, the minutes component alone when
\* m > 0 and s = 0, and both otherwise; -5 and 0 give "0 seconds", 25 gives
\* "25 seconds", 120 gives "2 minutes", 70 gives "1 minute 10 seconds".
C12_ComponentsShown ==
    FormatDone =>
        LET c == IF arg < 0 THEN 0 ELSE arg
            m == c \div 60
            s == c % 60
        IN  /\ m = 0 => res.val \in Component(s, "second")
            /\ (m > 0 /\ s = 0) => res.val \in Component(m, "minute")
            /\ (m > 0 /\ s > 0) =>
                   \E a \in Component(m, "minute"), b \in Component(s, "second") :
                       res.val = a \o " " \o b
            /\ arg \in {-5, 0} => res.val = "0 seconds"
            /\ arg = 25 => res.val = "25 seconds"
            /\ arg = 120 => res.val = "2 minutes"
            /\ arg = 70 => res.val = "1 minute 10 seconds"

C12_Witness ==
    /\ FormatDone
    /\ fn = "formatMinutesSeconds"
    /\ arg = 70
    /\ res.val = "1 minute 10 seconds"

\* C13: in each of the three components the minutes component says "minute"
\* for the count 1 and "minutes" otherwise, and the seconds component says
\* "second" for the count 1 and "seconds" otherwise; 1 gives "1 second" and
\* 61 gives "1 minute 1 second".
C13_PluralByCount ==
    FormatDone =>
        LET c == IF arg < 0 THEN 0 ELSE arg
            m == c \div 60
            s == c % 60
            minutesShown == Join(NumToText(m)) \o (IF m = 1 THEN " minute" ELSE " minutes")
            secondsShown == Join(NumToText(s)) \o (IF s = 1 THEN " second" ELSE " seconds")
        IN  /\ m = 0 => res.val = secondsShown
            /\ (m > 0 /\ s = 0) => res.val = minutesShown
            /\ (m > 0 /\ s > 0) => res.val = minutesShown \o " " \o secondsShown
            /\ arg = 1 => res.val = "1 second"
            /\ arg = 61 => res.val = "1 minute 1 second"

(***************************************************************************)
(* Properties of the selection in the five variants.                       *)
(***************************************************************************)
\* C14: in the three variants that show a walk time, the label is present
\* exactly when a selection exists and has a spot, and is then
\* formatMinutesSeconds(estimateWalkSecondsIDW(row, aisle, spot)); with a
\* cell-only selection no time is shown (a dash in the search-enabled
\* variant, no line in the other two), never a duration.
C14_WalkTimeOnlyWithSpot ==
    /\ fn = "ui" =>
        LET label == approxWalkTimeLabel(State)
            hasSpot == selectedLocation # None /\ Val(selectedLocation).spot # None
        IN  /\ label # None <=> hasSpot
            /\ hasSpot =>
                 label = Some(formatMinutesSeconds(estimateWalkSecondsIDW(
                                  [row |-> Val(selectedLocation).row,
                                   aisle |-> Val(selectedLocation).aisle,
                                   spot |-> Val(Val(selectedLocation).spot)])))
            /\ (selectedLocation # None /\ ~hasSpot) => WalkTimeShown(State) = Some("-")
    /\ fn = "entranceView" =>
        LET hasSpot == selected # None /\ Val(selected).spot # None
        IN  /\ Entrance_approxWalkTime(selected) # None <=> hasSpot
            /\ hasSpot =>
                 Val(Entrance_approxWalkTime(selected)).label =
                     Entrance_formatMinutesSeconds(Entrance_estimateWalkSecondsIDW(
                         [row |-> Val(selected).row, aisle |-> Val(selected).column,
                          spot |-> Val(Val(selected).spot)]))
    /\ fn = "rotation" =>
        LET hasSpot == selected # None /\ Val(selected).spot # None
        IN  /\ Rotation_approxWalkTime(selected) # None <=> hasSpot
            /\ hasSpot =>
                 Val(Rotation_approxWalkTime(selected)).label =
                     Rotation_formatMinutesSeconds(Rotation_estimateWalkSecondsIDW(
                         [row |-> Val(selected).row, aisle |-> Val(selected).column,
                          spot |-> Val(Val(selected).spot)]))

\* the search "I-2" has selected a cell with no spot
C14_Witness ==
    /\ fn = "ui"
    /\ selectedLocation # None
    /\ Val(selectedLocation).code = <<"I", "-", "2">>
    /\ Val(selectedLocation).spot = None
    /\ approxWalkTimeLabel(State) = None
    /\ WalkTimeShown(State) = Some("-")

\* C15: in the search-enabled variant, when a selection exists and the user
\* submits a search text that parses and lies inside the footprint, by Enter
\* in the search field or by pressing the Go button with the pointer, the
\* selection afterwards is the searched location, with the code
\* buildCode(row, aisle, spot).
C15_SearchReplacesSelection ==
    [][LET parsed == parseSearchInput(searchValue)
       IN  (/\ selectedLocation # None
            /\ parsed.ok
            /\ FootprintTable(parsed.row, parsed.aisle)
            /\ (KeyEnterInSearch \/ PressGo)) =>
               selectedLocation' =
                   Some(Location(parsed.row, parsed.aisle, parsed.spot,
                                 buildCode(parsed.row, parsed.aisle, parsed.spot)))]_vars

\* C16: while a selection exists, a pointer press outside the container
\* (rotation variant), or on anything that is not a spot button
\* (search-enabled variant), leaves the selection absent; a press inside the
\* container on an element with no handler leaves it as it was, and a press
\* on a cell or on a spot button leaves a selection present.  Each case is
\* written from its outcome: no step with another outcome is that press.
C16_ClickOutsideClears ==
    [][/\ (fn = "rotation" /\ selected # None) =>
            /\ selected' # None => ~Grid_PressOn("page")
            /\ selected' # selected => ~(Grid_PressOn("container") \/ Grid_PressOn("viewport"))
            /\ selected' = None => ~(Grid_PressCell \/ Grid_PressSpot)
       /\ (fn = "ui" /\ selectedLocation # None) =>
            /\ selectedLocation' # None =>
                   ~(PressElsewhere \/ PressGo \/ PressClearSearch \/ PressClearSelection)
            /\ selectedLocation' = None => ~PressSpot]_vars

\* a selection that a press outside the container clears and a press inside keeps
C16_Witness ==
    /\ fn = "rotation"
    /\ selected # None
    /\ Val(selected).spot # None
    /\ Rotation_onPointerDown(selected, FALSE) = None
    /\ Rotation_onPointerDown(selected, TRUE) = selected

\* C17: in the entrance-view variant a pointer press outside the plan
\* viewport, on no button, while a spot is selected leaves the selection
\* with the same row and column and no spot; with no spot selected, or with
\* the press inside the viewport, the press changes nothing.
C17_OutsidePressClearsSpotOnly ==
    [][fn = "entranceView" =>
        /\ (Grid_PressOn("container") \/ Grid_PressOn("page")) =>
             /\ hovered' = hovered
             /\ IF selected # None /\ Val(selected).spot # None
                THEN selected' = Some([row |-> Val(selected).row,
                                       column |-> Val(selected).column,
                                       spot |-> None])
                ELSE selected' = selected
        /\ Grid_PressOn("viewport") => (selected' = selected /\ hovered' = hovered)]_vars

\* a selected spot that a press outside the viewport clears, keeping the cell
C17_Witness ==
    /\ fn = "entranceView"
    /\ selected = Some([row |-> "G", column |-> 5, spot |-> Some(9)])
    /\ Entrance_onPointerDown(selected, FALSE) =
           Some([row |-> "G", column |-> 5, spot |-> None])
    /\ Entrance_onPointerDown(selected, TRUE) = selected

\* C18: in every variant, pressing Clear / Clear Selection in a state with a
\* selection leaves the selection absent and the status "Not Active"; in the
\* search-enabled variant the search text and the search error are emptied
\* as well.
C18_ClearEmptiesSelection ==
    [][/\ (fn = "ui" /\ selectedLocation # None /\ PressClearSelection) =>
            /\ selectedLocation' = None
            /\ searchValue' = <<>>
            /\ searchError' = None
            /\ StatusText(selectedLocation') = "Not Active"
       /\ (fn \in GridVariants /\ selected # None /\ Grid_PressClearSelection) =>
            /\ selected' = None
            /\ StatusText(selected') = "Not Active"]_vars

\* a selection with a rejected search text beside it, which Clear Selection empties
C18_Witness ==
    /\ fn = "ui"
    /\ selectedLocation # None
    /\ searchValue = <<"G", "-", "9">>
    /\ searchError # None
    /\ StatusText(selectedLocation) = "Active"
    /\ clearSelection(State) =
           [selectedLocation |-> None, searchValue |-> <<>>, searchError |-> None]

\* the footprint of the nine-row variant
NineRowFootprintTable(row, column) ==
    \/ row = "I" /\ column \in 1..10
    \/ row \in {"A", "B", "C", "D"} /\ column \in 1..6
    \/ row \in {"E", "F", "G", "H"} /\ column \in 1..5

\* C19: in every variant and every reachable state the selection is absent,
\* or its (row, aisle) lies inside the variant's footprint and its spot is
\* absent or within 1..9 (1..10 in the nine-row variant).
C19_SelectionValid ==
    /\ fn = "ui" =>
         \/ selectedLocation = None
         \/ /\ FootprintTable(Val(selectedLocation).row, Val(selectedLocation).aisle)
            /\ \/ Val(selectedLocation).spot = None
               \/ Val(Val(selectedLocation).spot) \in 1..9
    /\ fn \in {"entranceView", "rotation", "grid"} =>
         \/ selected = None
         \/ /\ FootprintTable(Val(selected).row, Val(selected).column)
            /\ Val(selected).spot = None \/ Val(Val(selected).spot) \in 1..9
    /\ fn = "nineRow" =>
         \/ selected = None
         \/ /\ NineRowFootprintTable(Val(selected).row, Val(selected).column)
            /\ Val(selected).spot = None \/ Val(Val(selected).spot) \in 1..10

\* the last cell of row G selected with its last spot in the entrance view
C19_Witness ==
    /\ fn = "entranceView"
    /\ arg.isTablet
    /\ selected = Some([row |-> "G", column |-> 5, spot |-> Some(9)])
    /\ hovered # None

(***************************************************************************)
(* Properties of the nine-row footprint check.                             *)
(***************************************************************************)
\* C20: in the nine-row variant isValidCell gives rows E, F and G the column
\* bound 1..6 of rows A..D and gives row H the bound 1..5: isValidCell(E, 6),
\* (F, 6) and (G, 6) are true and isValidCell(H, 6) is false.
C20_NineRowLongLegToG ==
    (fn = "NineRow_isValidCell" /\ res.done) =>
        /\ arg.row \in {"E", "F", "G"} => (res.val <=> arg.column \in 1..6)
        /\ arg.row = "H" => (res.val <=> arg.column \in 1..5)

(***************************************************************************)
(* Properties of the layout note.                                          *)
(***************************************************************************)
\* the cells a layout note names
NoteNames(note, row, aisle) ==
    \/ row = note.longRow /\ aisle \in note.longAisles
    \/ row \in note.rows /\ aisle \in note.aisles

\* C21: the layout note matches the selectable cells: isValidCell(row, aisle)
\* is true exactly for the cells the note of its component names, row I with
\* aisles 1..9 and rows A..G with aisles 1..6 in the 8-row variant, row I
\* with aisles 1..10 and rows A..H with aisles 1..6 in the nine-row variant.
C21_LayoutNoteMatchesCells ==
    /\ (fn = "isValidLocation" /\ res.done) =>
         (res.val.cell <=> NoteNames(LayoutNote, arg.row, arg.aisle))
    /\ (fn = "NineRow_isValidCell" /\ res.done) =>
         (res.val <=> NoteNames(NineRow_LayoutNote, arg.row, arg.column))

(***************************************************************************)
(* Properties of the order of the parser's checks.                         *)
(***************************************************************************)
\* the text between its first and its last visible character, in upper case
VisibleCore(text) ==
    LET shown == {i \in DOMAIN text : text[i] \notin WhiteSpace}
    IN  IF shown = {} THEN <<>>
        ELSE LET first == CHOOSE i \in shown : \A j \in shown : i <= j
                 last == CHOOSE i \in shown : \A j \in shown : j <= i
             IN  [k \in 1..(last - first + 1) |-> toUpperCaseChar(text[first + k - 1])]

\* the positions of the aisle digit and of the spot digit in a core that has
\* the hyphenated or the compact form, <<>> otherwise
DigitPositions(core) ==
    LET digit(i) == core[i] \in Range(DigitChars)
    IN  IF Len(core) < 2 \/ core[1] \notin RowCode THEN <<>>
        ELSE IF Len(core) = 2 /\ digit(2) THEN <<2>>
        ELSE IF Len(core) = 3 /\ digit(2) /\ digit(3) THEN <<2, 3>>
        ELSE IF Len(core) = 3 /\ core[2] = "-" /\ digit(3) THEN <<3>>
        ELSE IF Len(core) = 5 /\ core[2] = "-" /\ digit(3) /\ core[4] = "-" /\ digit(5)
        THEN <<3, 5>>
        ELSE <<>>

\* the first applicable outcome in the stated order
OrderedOutcome(text) ==
    LET core == VisibleCore(text)
        at == DigitPositions(core)
    IN  IF core = <<>> THEN MsgEmptyInput
        ELSE IF core[1] \in Range(UpperLetters) /\ core[1] \notin RowCode THEN MsgInvalidRow
        ELSE IF at = <<>> THEN MsgInvalidFormat
        ELSE IF DigitValue(core[at[1]]) \notin 1..9 THEN MsgInvalidAisle
        ELSE IF Len(at) = 2 /\ DigitValue(core[at[2]]) \notin 1..9 THEN MsgInvalidSpot
        ELSE "success"

\* C22: parseSearchInput returns, for every text, exactly one of six
\* outcomes, the first applicable in the order EmptyInput (empty after
\* trimming), InvalidRow (first character a letter outside the row set),
\* InvalidFormat (neither pattern matches), InvalidAisle (aisle outside
\* 1..9), InvalidSpot (spot present and outside 1..9), success; "I-0-0"
\* fails with InvalidAisle.
C22_FirstFailureInOrder ==
    ParseDone =>
        /\ \/ res.val.ok /\ DOMAIN res.val = {"ok", "row", "aisle", "spot"}
           \/ /\ ~res.val.ok
              /\ res.val.message \in {MsgEmptyInput, MsgInvalidRow, MsgInvalidFormat,
                                      MsgInvalidAisle, MsgInvalidSpot}
        /\ IF res.val.ok THEN OrderedOutcome(ParsedText) = "success"
           ELSE OrderedOutcome(ParsedText) = res.val.message
        /\ ParsedText = <<"I", "-", "0", "-", "0">> => res.val = Fail(MsgInvalidAisle)

\* "I-0-0", whose aisle and spot are both out of range, parsed
C22_Witness ==
    /\ ParseDone
    /\ ParsedText = <<"I", "-", "0", "-", "0">>
    /\ res.val = Fail(MsgInvalidAisle)

(***************************************************************************)
(* Properties of the frame of the submit and of the spot click.            *)
(***************************************************************************)
\* C23: in the search-enabled variant, from every reachable state in which
\* the submit is enabled, a run of handleSearchGo that rejects the text (a
\* parse failure or a footprint rejection) leaves the selection and the
\* search text as they were and sets the error message, and a run that
\* accepts the text leaves the parsed location selected, the search text
\* empty and no error; from every reachable state a click on a spot button
\* of a rendered cell leaves that spot selected, the search text empty and
\* no error.
C23_SubmitFrame ==
    fn = "ui" =>
        /\ canSearch(State) =>
              LET parsed == parseSearchInput(searchValue)
                  after == handleSearchGo(State)
              IN  IF ~parsed.ok \/ ~FootprintTable(parsed.row, parsed.aisle)
                  THEN /\ after.selectedLocation = selectedLocation
                       /\ after.searchValue = searchValue
                       /\ after.searchError # None
                       /\ ~parsed.ok => after.searchError = Some(parsed.message)
                  ELSE /\ after.selectedLocation # None
                       /\ Val(after.selectedLocation).row = parsed.row
                       /\ Val(after.selectedLocation).aisle = parsed.aisle
                       /\ Val(after.selectedLocation).spot = parsed.spot
                       /\ after.searchValue = <<>>
                       /\ after.searchError = None
        /\ \A row \in RowCode, aisle \in 1..9, spot \in ClickedSpots :
              FootprintTable(row, aisle) =>
                  LET after == handleSpotClick(onPointerDown(State, TRUE), row, aisle, spot)
                  IN  /\ after.selectedLocation # None
                      /\ Val(after.selectedLocation).row = row
                      /\ Val(after.selectedLocation).aisle = aisle
                      /\ Val(after.selectedLocation).spot = Some(spot)
                      /\ after.searchValue = <<>>
                      /\ after.searchError = None

\* a rejected text beside a selection that the submit left in place
C23_Witness ==
    /\ fn = "ui"
    /\ selectedLocation # None
    /\ Val(selectedLocation).code = <<"I", "-", "1", "-", "9">>
    /\ searchValue = <<"Z", "0">>
    /\ searchError = Some(MsgInvalidRow)

(***************************************************************************)
(* Properties of the cell and spot handlers of the grid variants.          *)
(***************************************************************************)
\* C24: in the grid variants, from every reachable state, a click on a spot
\* button of a valid cell ends with the selection (row, aisle, that spot),
\* the cell's click handler not running for that click; a click on the cell
\* itself, or Enter or Space on the focused cell, ends with the selection
\* (row, aisle, no spot).
C24_SpotClickKeepsSpot ==
    fn \in GridVariants =>
        \A c \in Grid_Cells, spot \in Grid_Spots :
            /\ SpotClick(c[1], c[2], spot) =
                   Some([row |-> c[1], column |-> c[2], spot |-> Some(spot)])
            /\ SpotClick(c[1], c[2], spot) # CellClick(c[1], c[2])
            /\ CellClick(c[1], c[2]) =
                   Some([row |-> c[1], column |-> c[2], spot |-> None])

\* the last spot of the last cell of row I selected in the nine-row variant
C24_Witness ==
    /\ fn = "nineRow"
    /\ selected = SpotClick("I", 10, 10)
    /\ selected = Some([row |-> "I", column |-> 10, spot |-> Some(10)])
    /\ selected # CellClick("I", 10)

(***************************************************************************)
(* Properties of the tablet spot picker of the entrance view.              *)
(***************************************************************************)
\* C25: in the entrance-view variant in tablet mode, choosing a spot in the
\* "Choose Spot" picker ends with the selection (same row, same aisle, the
\* chosen spot), also when another spot was selected before and the
\* outside-press listener has cleared it on the same gesture; choosing "No
\* Spot (cell only)" ends with the same row and aisle and no spot.
C25_TabletPickerKeepsCell ==
    [][(fn = "entranceView" /\ selected # None) =>
        /\ Grid_PressTabletSpot =>
             \E k \in ClickedSpots :
                 selected' = Some([row |-> Val(selected).row,
                                   column |-> Val(selected).column,
                                   spot |-> Some(k)])
        /\ Grid_PressTabletNoSpot =>
             selected' = Some([row |-> Val(selected).row,
                               column |-> Val(selected).column,
                               spot |-> None])]_vars

\* tablet mode with spot 1 of I-1 selected: a press on the picker reaches the
\* listener first, which clears the spot and leaves the picker rendered
C25_Witness ==
    /\ fn = "entranceView"
    /\ arg.isTablet
    /\ selected = Some([row |-> "I", column |-> 1, spot |-> Some(1)])
    /\ Grid_onPointerDown(selected, "container") =
           Some([row |-> "I", column |-> 1, spot |-> None])

(***************************************************************************)
(* Properties of the search error shown.                                   *)
(***************************************************************************)
\* C26: in the search-enabled variant handleSearchGo runs only on a search
\* text that is not blank (Go is disabled and Enter is ignored while the
\* trimmed text is empty), so that in no reachable state the search error is
\* the EmptyInput message "Enter a location (e.g., I-2-7 or I27)".
C26_EmptyInputNeverShown ==
    fn = "ui" =>
        /\ searchError # Some(MsgEmptyInput)
        /\ searchError # Some("Enter a location (e.g., I-2-7 or I27)")
        /\ searchError # None => canSearch(State)

\* a blank text in the field: the submit is disabled, and would show the
\* message if it ran
C26_Witness ==
    /\ fn = "ui"
    /\ searchValue = <<" ">>
    /\ ~canSearch(State)
    /\ searchError = None
    /\ handleSearchGo(State).searchError = Some(MsgEmptyInput)

(***************************************************************************)
(* Properties of the click-away listener.                                  *)
(***************************************************************************)
\* C27: after every state change has settled at most one click-away
\* listener is registered, and one is registered exactly while a selection
\* exists (search-enabled and rotation variants) or exactly while the
\* selection has a spot (entrance-view variant); none remains after the
\* selection is cleared or the component is unmounted.
C27_OneListenerWhileSelected ==
    LET wanted == CASE fn = "ui" -> selectedLocation # None
                    [] fn = "rotation" -> selected # None
                    [] fn = "entranceView" -> selected # None /\ Val(selected).spot # None
                    [] OTHER -> FALSE
    IN  fn \in {"ui"} \cup GridVariants =>
            /\ page.listeners \in {0, 1}
            /\ page.mounted => (page.listeners = 1 <=> wanted)
            /\ ~page.mounted => page.listeners = 0

\* the rotation variant unmounted with a cell selected: the listener is gone
C27_Witness ==
    /\ fn = "rotation"
    /\ selected # None
    /\ ~page.mounted
    /\ page.listeners = 0
    /\ ListenerWanted(selected)

(***************************************************************************)
(* Properties of DeviceGate.                                               *)
(***************************************************************************)
GateState == res.val

\* C28: DeviceGate never renders its children while the detected mode is
\* phone, except in the override form when the force-desktop flag is set (by
\* the desktop=1/true query parameter, the stored flag, or the "View desktop
\* version on mobile" button); in that form, whenever children are rendered
\* the reported mode is tablet or desktop, never phone, and exactly one of
\* isTablet and isDesktop is true.
C28_PhonesBlocked ==
    /\ fn = "DeviceGate" =>
         (GateState.info.mode = "phone" => DeviceGate(GateState) = None)
    /\ fn = "Override_DeviceGate" =>
         LET rendered == Override_DeviceGate(GateState)
         IN  /\ (GateState.info.mode = "phone" /\ ~GateState.forceDesktopOnPhone) =>
                    rendered = None
             /\ GateState.forceDesktopOnPhone =>
                    \/ arg.desktop \in {"1", "true"}
                    \/ arg.stored = "1"
                    \/ arg.stored = "unavailable"
             /\ rendered # None =>
                    /\ Val(rendered).mode \in {"tablet", "desktop"}
                    /\ Val(rendered).isTablet # Val(rendered).isDesktop
                    /\ Val(rendered).isTablet <=> Val(rendered).mode = "tablet"

\* a phone without storage on which the button was pressed: the children
\* are rendered and are told "desktop"
C28_Witness ==
    /\ fn = "Override_DeviceGate"
    /\ arg.desktop = "absent"
    /\ arg.stored = "unavailable"
    /\ ~InitialForceDesktop(arg)
    /\ arg.ua = {"iPhone", "Mobile"}
    /\ GateState.info.mode = "phone"
    /\ GateState.forceDesktopOnPhone
    /\ Override_DeviceGate(GateState) =
           Some([mode |-> "desktop", isPhone |-> TRUE, isTablet |-> FALSE, isDesktop |-> TRUE])

\* the phone rule and the tablet rule, on the smaller side of the window
PhoneRule(env) ==
    LET minSide == IF env.width <= env.height THEN env.width ELSE env.height
    IN  /\ minSide > 0
        /\ \/ minSide < 768
           \/ env.ua \cap {"iPhone", "iPod", "Windows Phone"} # {}
           \/ {"Android", "Mobile"} \subseteq env.ua
           \/ env.coarsePointer /\ minSide < 820

TabletUserAgent(ua) ==
    \/ "iPad" \in ua
    \/ "Tablet" \in ua
    \/ "Android" \in ua /\ "Mobile" \notin ua

\* C29: getDeviceMode never classifies a non-touch desktop browser as
\* tablet: with a pointer that is not coarse and a user agent that is not a
\* tablet's the mode is never "tablet", whatever the width and height; the
\* mode is "phone" exactly under the phone rule and "tablet" only outside
\* it, so the two exclude each other; and the mode depends on width and
\* height through min(width, height) only, so swapping the two does not
\* change it.
C29_DesktopNeverTablet ==
    fn \in {"DeviceGate", "Override_DeviceGate"} =>
        LET detected == getDeviceMode(arg)
            swapped == getDeviceMode([arg EXCEPT !.width = arg.height, !.height = arg.width])
            minSide == IF arg.width <= arg.height THEN arg.width ELSE arg.height
            square == getDeviceMode([arg EXCEPT !.width = minSide, !.height = minSide])
        IN  /\ ~GateState.raf => GateState.info = detected
            /\ (~arg.coarsePointer /\ ~TabletUserAgent(arg.ua)) => detected.mode # "tablet"
            /\ detected.mode = "phone" <=> PhoneRule(arg)
            /\ detected.mode = "tablet" => ~PhoneRule(arg)
            /\ detected.mode \in {"phone", "tablet", "desktop"}
            /\ swapped.mode = detected.mode
            /\ square.mode = detected.mode

\* a desktop browser window of tablet size just after its sides were
\* swapped: the info of the state is that of the sides before, and the mode
\* detected for the new sides is the same
C29_Witness ==
    /\ fn = "DeviceGate"
    /\ arg.ua = {}
    /\ ~arg.coarsePointer
    /\ arg.width = 1367 - Margin
    /\ arg.height = 768
    /\ GateState.raf
    /\ GateState.info = [mode |-> "desktop", width |-> 768, height |-> 1367 - Margin]
    /\ getDeviceMode(arg).mode = "desktop"

====
